---------------------------- MODULE Spec2Model ----------------------------
(***************************************************************************)
(* The community-member scraper (src/unnamed/part_003): one process that   *)
(* loads a previously written dataset, walks the rendered member rows,     *)
(* hovers each unprocessed avatar, records a profile, checkpoints the      *)
(* collection and scrolls until the stagnation counter reaches its         *)
(* threshold.  The page (rows, hover cards), the image host, the file      *)
(* system, process kills and restarts are the environment.  A second       *)
(* specification, ParseSpec, takes one label text through the follower     *)
(* parsing, the user record, the collection and the dataset.               *)
(***************************************************************************)
EXTENDS Integers, Sequences, FiniteSets, TLC

(***************************************************************************)
(* Program constants.                                                      *)
(***************************************************************************)
\* while (stagnantScrolls < 5)
StagnationThreshold == 5
\* if (collected.size % 25 === 0)
CheckpointEvery == 25

(***************************************************************************)
(* Bounds of the model.                                                    *)
(***************************************************************************)
\* scroll passes of the large feed
NPasses == 3
\* member rows revealed per pass in the large feed
PageSize == 10
\* the small feeds reveal one row per pass over 1..MaxPages passes
MaxPages == 6
\* processes started one after the other on the same dataset file
MaxRuns == 2
\* times the accounts' data (bio, follower label) changes
MaxGen == 1
\* the scroll counters stop counting here
MaxCount == 7
\* characters of a follower label in ParseSpec
MaxLen == 4

Min(a, b) == IF a < b THEN a ELSE b
Max(a, b) == IF a > b THEN a ELSE b

(***************************************************************************)
(* JavaScript values: a number, NaN or null.                               *)
(***************************************************************************)
Null == [kind |-> "null", val |-> 0]
NaN == [kind |-> "nan", val |-> 0]
Num(n) == [kind |-> "num", val |-> n]

(***************************************************************************)
(* Text is a sequence of one-character strings.                            *)
(***************************************************************************)
Digits == <<"0", "1", "2", "3", "4", "5", "6", "7", "8", "9">>
IsDigit(c) == \E d \in 1..10 : Digits[d] = c
DigitVal(c) == (CHOOSE d \in 1..10 : Digits[d] = c) - 1

RECURSIVE Pow10(_)
Pow10(n) == IF n = 0 THEN 1 ELSE 10 * Pow10(n - 1)

\* text.replace(/[^0-9]/g, '')
RECURSIVE DigitsOnly(_)
DigitsOnly(text) ==
    IF text = <<>> THEN <<>>
    ELSE IF IsDigit(Head(text)) THEN <<Head(text)>> \o DigitsOnly(Tail(text))
    ELSE DigitsOnly(Tail(text))

RECURSIVE DigitsValue(_)
DigitsValue(ds) ==
    IF ds = <<>> THEN 0
    ELSE 10 * DigitsValue(SubSeq(ds, 1, Len(ds) - 1)) + DigitVal(ds[Len(ds)])

\* the longest run of digits at the start of text
RECURSIVE LeadingDigits(_)
LeadingDigits(text) ==
    IF text = <<>> \/ ~IsDigit(Head(text)) THEN <<>>
    ELSE <<Head(text)>> \o LeadingDigits(Tail(text))

\* parseInt(s) of a string of digits: NaN when the string is empty
ParseInt(ds) == IF ds = <<>> THEN NaN ELSE Num(DigitsValue(ds))

RECURSIVE SkipSpaces(_)
SkipSpaces(text) ==
    IF text # <<>> /\ Head(text) = " " THEN SkipSpaces(Tail(text)) ELSE text

(***************************************************************************)
(* parseFloat(text) as a decimal fraction [nan, neg, mant, scale], the     *)
(* value being mant / 10^scale: leading white space, an optional sign,     *)
(* digits, an optional point and digits; NaN when no digit is found.  The  *)
(* labels of the model hold no exponent part.                              *)
(***************************************************************************)
ParseFloat(text) ==
    LET t0 == SkipSpaces(text)
        signed == t0 # <<>> /\ Head(t0) \in {"+", "-"}
        neg == t0 # <<>> /\ Head(t0) = "-"
        t1 == IF signed THEN Tail(t0) ELSE t0
        ip == LeadingDigits(t1)
        t2 == SubSeq(t1, Len(ip) + 1, Len(t1))
        fp == IF t2 # <<>> /\ Head(t2) = "." THEN LeadingDigits(Tail(t2)) ELSE <<>>
    IN  IF ip = <<>> /\ fp = <<>>
        THEN [nan |-> TRUE, neg |-> FALSE, mant |-> 0, scale |-> 0]
        ELSE [nan |-> FALSE, neg |-> neg, mant |-> DigitsValue(ip \o fp), scale |-> Len(fp)]

(***************************************************************************)
(* Numbers are IEEE 754 doubles.  A double is [m, e]: the value m * 2^e,   *)
(* m a natural number below 2^Precision.  Naturals of that size are        *)
(* written in base 2^10, most significant digit first (<<>> is zero).      *)
(***************************************************************************)
\* the bits of the significand of a double
Precision == 53

Base == 2 ^ 10

\* integers from a billion upward are not told apart
Huge == Pow10(9)

RECURSIVE Limbs(_)
Limbs(n) == IF n = 0 THEN <<>> ELSE Append(Limbs(n \div Base), n % Base)

Zeros(k) == [j \in 1..k |-> 0]
Front(b) == SubSeq(b, 1, Len(b) - 1)
Last(b) == b[Len(b)]

RECURSIVE Strip(_)
Strip(b) == IF b # <<>> /\ Head(b) = 0 THEN Strip(Tail(b)) ELSE b

RECURSIVE LimbsValue(_)
LimbsValue(b) == IF b = <<>> THEN 0 ELSE Base * LimbsValue(Front(b)) + Last(b)

IntValue(b) == IF Len(b) > 3 THEN Huge ELSE Min(LimbsValue(b), Huge)

RECURSIVE Width(_)
Width(n) == IF n = 0 THEN 0 ELSE 1 + Width(n \div 2)

\* the number of bits of b
BitLen(b) == IF b = <<>> THEN 0 ELSE Width(Head(b)) + 10 * (Len(b) - 1)

RECURSIVE Inc(_)
Inc(b) ==
    IF b = <<>> THEN <<1>>
    ELSE IF Last(b) < Base - 1 THEN Append(Front(b), Last(b) + 1)
    ELSE Append(Inc(Front(b)), 0)

\* b * f + carry, for a small f
RECURSIVE MulAcc(_, _, _)
MulAcc(b, f, carry) ==
    IF b = <<>> THEN Limbs(carry)
    ELSE LET t == Last(b) * f + carry
         IN  Append(MulAcc(Front(b), f, t \div Base), t % Base)

\* quotient (as many digits as b) and remainder of b by a small d
RECURSIVE DivRem(_, _)
DivRem(b, d) ==
    IF b = <<>> THEN [q |-> <<>>, r |-> 0]
    ELSE LET p == DivRem(Front(b), d)
             t == Base * p.r + Last(b)
         IN  [q |-> Append(p.q, t \div d), r |-> t % d]

\* b = hi * 2^n + lo with lo < 2^n, for 1 <= n < BitLen(b): hi, whether lo is
\* zero, and lo compared with 2^(n-1)
Split(b, n) ==
    LET whole == n \div 10
        part == n % 10
        low == SubSeq(b, Len(b) - whole + 1, Len(b))
        d == DivRem(SubSeq(b, 1, Len(b) - whole), 2 ^ part)
        lowZero == \A j \in 1..Len(low) : low[j] = 0
        top == IF part > 0 THEN d.r ELSE Head(low)
        half == IF part > 0 THEN 2 ^ (part - 1) ELSE Base \div 2
        below == IF part > 0 THEN lowZero ELSE \A j \in 2..Len(low) : low[j] = 0
    IN  [hi |-> Strip(d.q),
         zero |-> d.r = 0 /\ lowZero,
         cmp |-> IF top > half THEN 1
                 ELSE IF top < half THEN -1
                 ELSE IF below THEN 0 ELSE 1]

\* b rounded to Precision bits, ties to even; sticky: a remainder lies below b
RoundBits(b, sticky) ==
    IF BitLen(b) <= Precision THEN [m |-> b, drop |-> 0]
    ELSE LET n == BitLen(b) - Precision
             s == Split(b, n)
             up == s.cmp = 1 \/ (s.cmp = 0 /\ (sticky \/ Last(s.hi) % 2 = 1))
             k == IF up THEN Inc(s.hi) ELSE s.hi
         IN  IF BitLen(k) > Precision
             THEN [m |-> Split(k, 1).hi, drop |-> n + 1]
             ELSE [m |-> k, drop |-> n]

\* the double nearest to mant / 10^scale
ToDouble(mant, scale) ==
    IF mant = 0 THEN [m |-> <<>>, e |-> 0]
    ELSE LET digits == 6 + scale
             d == DivRem(Limbs(mant) \o Zeros(digits), Pow10(scale))
             r == RoundBits(Strip(d.q), d.r # 0)
         IN  [m |-> r.m, e |-> r.drop - 10 * digits]

\* the double x * factor
Times(x, factor) ==
    LET r == RoundBits(Strip(MulAcc(x.m, factor, 0)), FALSE)
    IN  [m |-> r.m, e |-> x.e + r.drop]

\* the integer part of the double x, and whether x has a fraction
Trunc(x) ==
    IF x.e >= 0
    THEN [int |-> Strip(MulAcc(x.m, 2 ^ (x.e % 10), 0)) \o Zeros(x.e \div 10),
          frac |-> FALSE]
    ELSE IF 0 - x.e >= BitLen(x.m) THEN [int |-> <<>>, frac |-> x.m # <<>>]
    ELSE [int |-> Split(x.m, 0 - x.e).hi, frac |-> ~Split(x.m, 0 - x.e).zero]

\* Math.floor of the number of magnitude t, negative or not
Floor(t, neg) ==
    IF ~neg THEN Num(IntValue(t.int))
    ELSE Num(0 - (IntValue(t.int) + (IF t.frac THEN 1 ELSE 0)))

\* Math.floor(parseFloat(text) * factor)
FloorTimes(f, factor) ==
    IF f.nan THEN NaN
    ELSE Floor(Trunc(Times(ToDouble(f.mant, f.scale), factor)), f.neg)

HasAny(text, cs) == \E k \in 1..Len(text) : text[k] \in cs

(***************************************************************************)
(* The follower count read from the label of the followers link.           *)
(***************************************************************************)
ParseFollowers(text) ==
    IF text = <<>> THEN Null
    ELSE IF HasAny(text, {"k", "K"}) THEN FloorTimes(ParseFloat(text), 1000)
    ELSE IF HasAny(text, {"m", "M"}) THEN FloorTimes(ParseFloat(text), 1000000)
    ELSE ParseInt(DigitsOnly(text))

\* a record that keeps NaN
KeepsNaN(v) == v

\* followers: isNaN(followers) ? null : followers
NanToNull(v) == IF v.kind = "nan" THEN Null ELSE v


(***************************************************************************)
(* The page.  A feed is a fixture: pages of member rows, one more page     *)
(* revealed by each scroll.  Handles are numbers, 0 being the empty        *)
(* string; the members are 1..pages*perPage.                               *)
(***************************************************************************)
MaxHandle == Max(NPasses * PageSize, MaxPages)
\* a handle rendered in an avatar container outside every member row
Outsider == MaxHandle + 1
\* a former member, no longer in the feed
Departed == MaxHandle + 2

Extras == {"none", "noAvatarRow", "emptyHandleRow", "outsideContainer"}

Fixture(pages, perPage, cardsUpTo, accum, extra) ==
    [pages |-> pages, perPage |-> perPage, cardsUpTo |-> cardsUpTo,
     accum |-> accum, extra |-> extra]

\* the large feed: no hover card for the rows of the last pass
LargeFeeds ==
    {Fixture(NPasses, PageSize, (NPasses - 1) * PageSize, TRUE, "none")}
\* one row per pass; rows stay rendered (accum) or only the last two pages do
PagedFeeds ==
    {Fixture(p, 1, p, a, "none") : p \in 1..MaxPages, a \in BOOLEAN}
\* two rows, hover cards for the first c of them
CardFeeds ==
    {Fixture(1, 2, c, TRUE, "none") : c \in 0..2}
\* elements that are not member rows with a handle
ExtraFeeds ==
    {Fixture(p, 1, p, TRUE, e) : p \in 1..2, e \in Extras \ {"none"}}
\* member rows without a name span, without an img, or whose image host
\* is unreachable
Flaws == {"noName", "noImage", "imageUnreachable"}
\* an image host that answers 404, a response that breaks off after its
\* headers, an image file that cannot be written
ImageFaults == {"imageNotFound", "imageAborted", "fileError"}
\* a hover card that stays in the document when the pointer leaves, and
\* member rows without a bounding box
Lingers == {"stickyCard", "noBox"}
\* two rows, a hover card for the first only
FlawedFeeds ==
    {Fixture(1, 2, 1, TRUE, e) : e \in Flaws \cup ImageFaults \cup Lingers}
\* two pages of one row, the second rendered only after the next count of
\* the rows
LateFeeds == {Fixture(2, 1, 2, a, "lateRows") : a \in BOOLEAN}
Fixtures ==
    LargeFeeds \cup PagedFeeds \cup CardFeeds \cup ExtraFeeds \cup FlawedFeeds
        \cup LateFeeds

\* a [data-testid="UserCell"] element: its avatar container (if any) and handle
MemberRow(h) == [avatar |-> TRUE, handle |-> h]
ExtraRows(f) ==
    IF f.extra = "noAvatarRow" THEN <<[avatar |-> FALSE, handle |-> 0]>>
    ELSE IF f.extra = "emptyHandleRow" THEN <<[avatar |-> TRUE, handle |-> 0]>>
    ELSE <<>>

\* the first and last member handle rendered after s scrolls
FirstRendered(f, s) == IF f.accum THEN 1 ELSE (Max(1, s) - 1) * f.perPage + 1
LastRendered(f, s) == (s + 1) * f.perPage

\* page.$$('[data-testid="UserCell"]') after s scrolls
Rows(f, s) ==
    ExtraRows(f) \o
    [k \in 1..(LastRendered(f, s) - FirstRendered(f, s) + 1) |->
        MemberRow(FirstRendered(f, s) + k - 1)]

\* the handles of document.querySelectorAll('[data-testid^="UserAvatar-Container-"]')
Containers(f, s) ==
    {Rows(f, s)[k].handle : k \in {j \in 1..Len(Rows(f, s)) : Rows(f, s)[j].avatar}}
    \cup (IF f.extra = "outsideContainer" THEN {Outsider} ELSE {})

\* window.scrollBy(0, window.innerHeight): the next page, until the feed ends
ScrollBy(f, s) == Min(s + 1, f.pages - 1)

\* whether the rows a scroll asks for render only after the delay of line 232
\* and the count of line 73
RendersLate(f) == f.extra = "lateRows"

\* whether hovering the avatar of h spawns a hover card
SpawnsCard(f, h) == h <= f.cardsUpTo

(***************************************************************************)
(* The hover card: whose it is and the account data it was spawned with.   *)
(***************************************************************************)
NoCard == [of |-> 0, gen |-> 0]
CardOf(h, g) == [of |-> h, gen |-> g + 1]

\* the label of the followers link on the card
Labels ==
    << <<"1", "2", ".", "3", "K">>, <<"1", ".", "2", "M">>,
       <<"4", ",", "5", "0", "2">>, <<"7">> >>
Label(c) == Labels[((c.of + c.gen) % Len(Labels)) + 1]

\* the bio text of a card, "" being NoCard
EmptyBio == NoCard
\* an extraction whose followers start at 0 instead of null
HoverCardDataFromZero(c) ==
    IF c = NoCard THEN [bio |-> EmptyBio, followers |-> Num(0)]
    ELSE [bio |-> c, followers |-> ParseFollowers(Label(c))]

\* page.evaluate(...): { bio, followers } of the hover card in the document
HoverCardData(c) ==
    IF c = NoCard THEN [bio |-> EmptyBio, followers |-> Null]
    ELSE [bio |-> c, followers |-> ParseFollowers(Label(c))]

(***************************************************************************)
(* The collection: a Map in insertion order, as a sequence of profiles.    *)
(***************************************************************************)
Handles(m) == {m[k].handle : k \in 1..Len(m)}
HasKey(m, h) == \E k \in 1..Len(m) : m[k].handle = h
Lookup(m, h) == m[CHOOSE k \in 1..Len(m) : m[k].handle = h]

\* a collection kept sorted by handle
RECURSIVE MapSetSorted(_, _)
MapSetSorted(m, user) ==
    IF m = <<>> THEN <<user>>
    ELSE IF Head(m).handle = user.handle THEN <<user>> \o Tail(m)
    ELSE IF Head(m).handle > user.handle THEN <<user>> \o m
    ELSE <<Head(m)>> \o MapSetSorted(Tail(m), user)

\* collected.set(user.handle, user)
MapSet(m, user) ==
    IF HasKey(m, user.handle)
    THEN [k \in 1..Len(m) |-> IF m[k].handle = user.handle THEN user ELSE m[k]]
    ELSE Append(m, user)

\* for (const user of previousUsers) collected.set(user.handle, user)
RECURSIVE LoadAll(_, _)
LoadAll(m, users) ==
    IF users = <<>> THEN m ELSE LoadAll(MapSet(m, Head(users)), Tail(users))

\* the gate without its membership test
SkipsOnlyEmpty(handle, processed) == handle = 0

\* if (!handle || processedHandles.has(handle)) continue
Skips(handle, processed) == handle = 0 \/ handle \in processed

\* visibleHandles.filter(h => !processedHandles.has(h))
NewHandles(visible, processed) == {h \in visible : h \notin processed}

\* the loop condition off by one
KeepsLoopingOneMore(stagnant) == stagnant <= StagnationThreshold

\* while (stagnantScrolls < 5)
KeepsLooping(stagnant) == stagnant < StagnationThreshold

\* a checkpoint at every other multiple of 25
CheckpointDueRarely(m) == Len(m) % (2 * CheckpointEvery) = 0

\* the size tested before the profile is added
CheckpointDueBeforeSet(m) == (Len(m) - 1) % CheckpointEvery = 0

\* if (collected.size % 25 === 0)
CheckpointDue(m) == Len(m) % CheckpointEvery = 0

(***************************************************************************)
(* The dataset file.                                                       *)
(***************************************************************************)
NoFile == [state |-> "absent", data |-> <<>>]
\* opened for writing (truncated), not yet completely written
Torn == [state |-> "torn", data |-> <<>>]
File(users) == [state |-> "ok", data |-> users]

\* const user: EnrichedUser = { handle, name, bio, followers: isNaN(..) ? null : .., pfp_url }
User(handle, name, bio, followers, pfp) ==
    [handle |-> handle, name |-> name, bio |-> bio,
     followers |-> NanToNull(followers), pfp_url |-> pfp]

\* the text of the first span of a member row ('' without one), and the src
\* of its img ('' without one)
RowName(f, h) == IF f.extra = "noName" THEN 0 ELSE h
RowImage(f, h) == IF f.extra = "noImage" THEN 0 ELSE h

\* what happens to the request for the image and to the file it is written to
Fault(f) ==
    IF f.extra = "imageUnreachable" THEN "network"
    ELSE IF f.extra = "imageNotFound" THEN "status"
    ELSE IF f.extra = "imageAborted" THEN "aborted"
    ELSE IF f.extra = "fileError" THEN "stream"
    ELSE "none"

\* downloadImage(pfp, `${handle}.jpg`): how the promise ends.  'error' on the
\* request rejects it; the response callback pipes the body of any status
\* and 'finish' of the file resolves it; a response that breaks off never
\* ends the file, so the promise stays pending; 'error' on the file has no
\* listener and is thrown out of the event loop.
DownloadImage(f, h) ==
    IF Fault(f) = "network" THEN "rejected"
    ELSE IF Fault(f) = "aborted" THEN "never"
    ELSE IF Fault(f) = "stream" THEN "thrown"
    ELSE "resolved"

\* a download whose rejection leaves the row
AfterDownloadUncaught(outcome) ==
    IF outcome = "rejected" THEN "rowError" ELSE "record"

\* a download after which the row is left without being recorded
AfterDownloadNextRow(outcome) == "row"

\* try { await downloadImage(..) } catch (err) { console.warn(..) }: the
\* step that follows the download
AfterDownload(outcome) == "record"

\* a start that goes on without cookies
SessionNotNeeded(cookieFile) == TRUE

\* const cookies = await fs.readJSON(COOKIES_PATH): whether it returns
SessionLoaded(cookieFile) == cookieFile

\* the profile a run records for handle h when it reads card c, in a feed
\* whose rows have a name and an image
Profile(h, c) ==
    User(h, h, HoverCardData(c).bio, HoverCardData(c).followers, h)

\* datasets left by earlier runs: none, or one holding a departed member
PriorFiles == {NoFile, File(<<Profile(Departed, CardOf(Departed, 0))>>)}


(***************************************************************************)
(* State.                                                                  *)
(***************************************************************************)
VARIABLES
    fx,                \* the feed the page serves
    gen,               \* how often the accounts' data changed so far
    disk,              \* the dataset file OUTPUT
    run,               \* the number of the process (1 = the first one started)
    pc,                \* where the process is
    collected,         \* Map<string, EnrichedUser>
    processedHandles,  \* Set<string>
    stagnantScrolls,
    cellCount,
    i,
    scrollPos,         \* scrolls that moved the page
    card,              \* the [data-testid="HoverCard"] element in the document
    cur,               \* handle, bio, followers, pfp of the row in progress
    loaded,            \* handles loaded at startup (the "Resuming" log line)
    setCalls,          \* per handle, the collected.set calls of this run's rows
    hovers,            \* avatarContainer.hover() calls of this run
    scrolls,           \* scrolls issued by this run
    quiet,             \* the latest consecutive scrolls that showed no new handle
    ckptDone,          \* handles of the last periodic checkpoint that completed
    prevFinal,         \* what the previous process left, when it ran to its end
    afterDone,         \* whether the previous process ran to its end
    cookies,           \* whether the file COOKIES_PATH exists
    emptyPfp,          \* handles whose file in public/pfp was created and left empty
    lastGood,          \* the dataset file as it was last completely written
    text,              \* ParseSpec: the text of the followers label
    parsed,            \* ParseSpec: the followers value read from it
    pending,           \* whether rows asked for by a scroll have not rendered yet
    downloads,         \* per handle, how this run's downloadImage call ended
    isMobile,          \* HeaderSpec: Header.isMobile
    inputValue,        \* HeaderSpec: this.input.value
    searchTimeout,     \* HeaderSpec: the debounce timer and the text it holds
    dropdown,          \* HeaderSpec: this.dropdown, its display and its rows
    findMeResults,
    findMeSelected,
    blurTimers,        \* HeaderSpec: pending timers of the blur handler
    picked,            \* HeaderSpec: the user last given to onUserSelect
    cleared            \* HeaderSpec: the input was cleared, no text entered since

vars ==
    <<fx, gen, disk, run, pc, collected, processedHandles, stagnantScrolls,
      cellCount, i, scrollPos, card, cur, loaded, setCalls, hovers, scrolls,
      quiet, ckptDone, prevFinal, afterDone, cookies, emptyPfp, lastGood,
      text, parsed, pending, downloads, isMobile, inputValue, searchTimeout,
      dropdown, findMeResults, findMeSelected, blurTimers, picked, cleared>>

env == <<fx, gen>>
mem == <<collected, processedHandles>>
loop == <<stagnantScrolls, cellCount, i>>
page == <<scrollPos, card>>
hist == <<loaded, setCalls, hovers, scrolls, quiet, ckptDone, prevFinal, afterDone>>
files == <<cookies, emptyPfp, lastGood>>
probe == <<text, parsed>>
aux == <<pending, downloads>>
header ==
    <<isMobile, inputValue, searchTimeout, dropdown, findMeResults,
      findMeSelected, blurTimers, picked, cleared>>
scraper ==
    <<fx, gen, disk, run, pc, collected, processedHandles, stagnantScrolls,
      cellCount, i, scrollPos, card, cur, loaded, setCalls, hovers, scrolls,
      quiet, ckptDone, prevFinal, afterDone, cookies, emptyPfp, lastGood,
      text, parsed, pending, downloads>>

(***************************************************************************)
(* The search header (src/public/universe/header.js) as constructed: an    *)
(* empty input, a hidden and empty dropdown, no timer.                     *)
(***************************************************************************)
NoTimer == [armed |-> FALSE, val |-> <<>>]
EmptyDropdown == [display |-> FALSE, for |-> <<>>, rows |-> <<>>]
NoUser == <<>>

HeaderStart ==
    /\ inputValue = <<>>
    /\ searchTimeout = NoTimer
    /\ dropdown = EmptyDropdown
    /\ findMeResults = <<>>
    /\ findMeSelected = -1
    /\ blurTimers = 0
    /\ picked = NoUser
    /\ cleared = FALSE

\* a save of the profiles this process collected, without those it loaded
ValuesOfThisRun(m) == SelectSeq(m, LAMBDA u : u.handle \notin loaded)

\* Array.from(collected.values())
Values(m) == m

\* a load that fills the collection and not the processed set
LoadedNone(users) == {}

\* for (const user of previousUsers) processedHandles.add(user.handle)
LoadedHandles(users) == Handles(users)

Blank ==
    [handle |-> 0, bio |-> EmptyBio, followers |-> Null, pfp |-> 0,
     timedOut |-> FALSE]

Running ==
    {"start", "loop", "render", "row", "dehover", "hover", "extract", "leave",
     "download", "record", "ckpt", "check", "scroll", "final", "finalwrite"}

Bump(n) == Min(n + 1, MaxCount)

Init ==
    /\ fx \in Fixtures
    /\ gen = 0
    /\ disk \in PriorFiles
    /\ run = 1
    /\ pc = "start"
    /\ collected = <<>>
    /\ processedHandles = {}
    /\ stagnantScrolls = 0
    /\ cellCount = 0
    /\ i = 0
    /\ scrollPos = 0
    /\ card = NoCard
    /\ cur = Blank
    /\ loaded = {}
    /\ setCalls = [h \in {} |-> 0]
    /\ hovers = 0
    /\ scrolls = 0
    /\ quiet = 0
    /\ ckptDone = {}
    /\ prevFinal = <<>>
    /\ afterDone = FALSE
    /\ cookies \in BOOLEAN
    /\ emptyPfp = {}
    /\ lastGood = disk
    /\ text = <<>>
    /\ parsed = Null
    /\ pending = FALSE
    /\ downloads = [h \in {} |-> ""]
    /\ isMobile = FALSE
    /\ HeaderStart

(***************************************************************************)
(* Lines 43-70: the cookies are read, the page is opened, and the          *)
(* collection and the processed set are loaded from the dataset when it    *)
(* exists.  fs.readJSON throws when the cookie file is missing and when    *)
(* the dataset is not complete JSON, and nothing catches either.           *)
(***************************************************************************)
Startup ==
    /\ pc = "start"
    /\ IF ~SessionLoaded(cookies)
       THEN /\ pc' = "noSession"
            /\ UNCHANGED <<mem, loaded>>
       ELSE IF disk.state = "torn"
       THEN /\ pc' = "crashed"
            /\ UNCHANGED <<mem, loaded>>
       ELSE /\ collected' = LoadAll(<<>>, disk.data)
            /\ processedHandles' = LoadedHandles(disk.data)
            /\ loaded' = Handles(disk.data)
            /\ pc' = "loop"
    /\ UNCHANGED <<header, aux, files, probe, env, disk, run, loop, page, cur, setCalls, hovers,
                   scrolls, quiet, ckptDone, prevFinal, afterDone>>

(***************************************************************************)
(* Lines 72-74: the loop condition and the snapshot of the row count.      *)
(***************************************************************************)
LoopHead ==
    /\ pc = "loop"
    /\ IF KeepsLooping(stagnantScrolls)
       THEN /\ cellCount' = Len(Rows(fx, scrollPos))
            /\ i' = 0
            /\ pc' = IF pending THEN "render" ELSE "row"
       ELSE /\ pc' = "final"
            /\ UNCHANGED <<cellCount, i>>
    /\ UNCHANGED <<header, aux, files, probe, env, disk, run, mem, stagnantScrolls, page, cur, hist>>

(***************************************************************************)
(* The page: the rows a scroll asked for render, after the count of line   *)
(* 73 and before the first page.$$ of line 77.                             *)
(***************************************************************************)
Render ==
    /\ pc = "render"
    /\ scrollPos' = ScrollBy(fx, scrollPos)
    /\ pending' = FALSE
    /\ pc' = "row"
    /\ UNCHANGED <<header, downloads, files, probe, env, disk, run, mem, loop, card, cur,
                   hist>>

(***************************************************************************)
(* Lines 76-92: the i-th row, its handle, and the gate.                    *)
(***************************************************************************)
RowHandle(el) == IF el.avatar THEN el.handle ELSE 0

RowHead ==
    /\ pc = "row"
    /\ IF i >= cellCount
       THEN /\ pc' = "check"
            /\ UNCHANGED <<i, cur>>
       ELSE IF i + 1 > Len(Rows(fx, scrollPos))
       THEN /\ i' = i + 1
            /\ UNCHANGED <<pc, cur>>
       ELSE LET handle == RowHandle(Rows(fx, scrollPos)[i + 1])
            IN  IF Skips(handle, processedHandles)
                THEN /\ i' = i + 1
                     /\ UNCHANGED <<pc, cur>>
                ELSE /\ cur' = [Blank EXCEPT !.handle = handle]
                     /\ pc' = "dehover"
                     /\ UNCHANGED i
    /\ UNCHANGED <<header, aux, files, probe, env, disk, run, mem, stagnantScrolls, cellCount, page, hist>>

\* the card in the document once the pointer has left the avatar: it closes,
\* unless the page keeps it
AfterLeave(f, c) == IF f.extra = "stickyCard" THEN c ELSE NoCard

\* el.boundingBox(): whether the row has one
HasBox(f, h) == f.extra # "noBox"

(***************************************************************************)
(* Lines 94-96: the pointer moves to the top-left corner.                  *)
(***************************************************************************)
DeHover ==
    /\ pc = "dehover"
    /\ card' = AfterLeave(fx, card)
    /\ pc' = "hover"
    /\ UNCHANGED <<header, aux, files, probe, env, disk, run, mem, loop, scrollPos, cur, hist>>

(***************************************************************************)
(* Lines 98-111: hover the avatar and wait for a hover card; a timeout of  *)
(* the wait, when no hover card is in the document, is caught.             *)
(***************************************************************************)
Hover ==
    /\ pc = "hover"
    /\ card' = IF SpawnsCard(fx, cur.handle) THEN CardOf(cur.handle, gen) ELSE card
    /\ cur' = [cur EXCEPT !.timedOut = (card' = NoCard)]
    /\ hovers' = Bump(hovers)
    /\ pc' = "extract"
    /\ UNCHANGED <<header, aux, files, probe, env, disk, run, mem, loop, scrollPos, loaded,
                   setCalls, scrolls, quiet, ckptDone, prevFinal, afterDone>>

(***************************************************************************)
(* Lines 113-162: bio and followers of the hover card in the document.     *)
(***************************************************************************)
Extract ==
    /\ pc = "extract"
    /\ cur' = [cur EXCEPT !.bio = HoverCardData(card).bio,
                          !.followers = HoverCardData(card).followers]
    /\ pc' = "leave"
    /\ UNCHANGED <<header, aux, files, probe, env, disk, run, mem, loop, page, hist>>

(***************************************************************************)
(* Lines 164-176: the pointer moves right of the row; the avatar URL.      *)
(***************************************************************************)
Leave ==
    /\ pc = "leave"
    /\ card' = IF HasBox(fx, cur.handle) THEN AfterLeave(fx, card) ELSE card
    /\ cur' = [cur EXCEPT !.pfp = RowImage(fx, cur.handle)]
    /\ pc' = "download"
    /\ UNCHANGED <<header, aux, files, probe, env, disk, run, mem, loop, scrollPos, hist>>

(***************************************************************************)
(* Lines 178-185 and 25-41: the avatar download, when the row has an       *)
(* image.  createWriteStream creates the file before the request is made,  *)
(* so a rejected download leaves it empty.                                 *)
(***************************************************************************)
Settles(outcome) == outcome \in {"resolved", "rejected"}

Download ==
    /\ pc = "download"
    /\ IF cur.pfp = 0
       THEN /\ pc' = "record"
            /\ UNCHANGED <<emptyPfp, downloads>>
       ELSE LET outcome == DownloadImage(fx, cur.handle)
            IN  /\ Settles(outcome)
                /\ emptyPfp' = IF outcome = "rejected"
                               THEN emptyPfp \cup {cur.handle}
                               ELSE emptyPfp \ {cur.handle}
                /\ downloads' =
                     [h \in DOMAIN downloads \cup {cur.handle} |->
                         IF h = cur.handle THEN outcome ELSE downloads[h]]
                /\ pc' = AfterDownload(outcome)
    /\ UNCHANGED <<header, pending, cookies, lastGood, probe, env, disk, run, mem, loop,
                   page, cur, hist>>

(***************************************************************************)
(* Lines 28-37: the response breaks off after its headers.  Nothing        *)
(* listens to the response, the piped file is never ended, 'finish' never  *)
(* comes: the promise stays pending and the await of line 181 with it.     *)
(***************************************************************************)
DownloadHangs ==
    /\ pc = "download"
    /\ cur.pfp # 0
    /\ DownloadImage(fx, cur.handle) = "never"
    /\ pc' = "blocked"
    /\ UNCHANGED <<header, aux, files, probe, env, disk, run, mem, loop, page,
                   cur, hist>>

(***************************************************************************)
(* Lines 187-212: the name, the record, the processed mark, and the        *)
(* periodic checkpoint, whose write first truncates the file.              *)
(***************************************************************************)
Record ==
    /\ pc = "record"
    /\ LET user == User(cur.handle, RowName(fx, cur.handle), cur.bio,
                        cur.followers, cur.pfp)
           next == MapSet(collected, user)
       IN  /\ collected' = next
           /\ processedHandles' = processedHandles \cup {cur.handle}
           /\ setCalls' =
                [h \in DOMAIN setCalls \cup {cur.handle} |->
                    IF h = cur.handle
                    THEN (IF h \in DOMAIN setCalls THEN Bump(setCalls[h]) ELSE 1)
                    ELSE setCalls[h]]
           /\ IF CheckpointDue(next)
              THEN /\ disk' = Torn
                   /\ pc' = "ckpt"
                   /\ UNCHANGED <<i, cur>>
              ELSE /\ i' = i + 1
                   /\ cur' = Blank
                   /\ pc' = "row"
                   /\ UNCHANGED disk
    /\ UNCHANGED <<header, aux, files, probe, env, run, stagnantScrolls, cellCount, page, loaded, hovers,
                   scrolls, quiet, ckptDone, prevFinal, afterDone>>

(***************************************************************************)
(* Line 209 completes: the file holds the whole collection.                *)
(***************************************************************************)
CheckpointDone ==
    /\ pc = "ckpt"
    /\ disk' = File(Values(collected))
    /\ lastGood' = disk'
    /\ ckptDone' = Handles(collected)
    /\ i' = i + 1
    /\ cur' = Blank
    /\ pc' = "row"
    /\ UNCHANGED <<header, aux, cookies, emptyPfp, probe, env, run, mem, stagnantScrolls,
                   cellCount, page, loaded, setCalls, hovers, scrolls, quiet,
                   prevFinal, afterDone>>

(***************************************************************************)
(* Lines 215-226: the stagnation counter.                                  *)
(***************************************************************************)
Check ==
    /\ pc = "check"
    /\ stagnantScrolls' =
         IF NewHandles(Containers(fx, scrollPos), processedHandles) = {}
         THEN stagnantScrolls + 1
         ELSE 0
    /\ pc' = "scroll"
    /\ UNCHANGED <<header, aux, files, probe, env, disk, run, mem, cellCount, i, page, cur, hist>>

(***************************************************************************)
(* Lines 228-232: scroll by one viewport.                                  *)
(***************************************************************************)
Scroll ==
    /\ pc = "scroll"
    /\ IF RendersLate(fx)
       THEN /\ pending' = (ScrollBy(fx, scrollPos) # scrollPos)
            /\ UNCHANGED scrollPos
       ELSE /\ scrollPos' = ScrollBy(fx, scrollPos)
            /\ UNCHANGED pending
    /\ scrolls' = Bump(scrolls)
    /\ quiet' =
         IF NewHandles(Containers(fx, ScrollBy(fx, scrollPos)), processedHandles) = {}
         THEN Bump(quiet)
         ELSE 0
    /\ pc' = "loop"
    /\ UNCHANGED <<header, downloads, files, probe, env, disk, run, mem, loop, card, cur,
                   loaded, setCalls, hovers, ckptDone, prevFinal, afterDone>>

(***************************************************************************)
(* Lines 235-238: the browser closes and the final write begins.           *)
(***************************************************************************)
FinalSave ==
    /\ pc = "final"
    /\ disk' = Torn
    /\ pc' = "finalwrite"
    /\ UNCHANGED <<header, aux, files, probe, env, run, mem, loop, page, cur, hist>>

(***************************************************************************)
(* Lines 238-241: the final write completes and the process ends.          *)
(***************************************************************************)
FinalDone ==
    /\ pc = "finalwrite"
    /\ disk' = File(Values(collected))
    /\ lastGood' = disk'
    /\ pc' = "done"
    /\ UNCHANGED <<header, aux, cookies, emptyPfp, probe, env, run, mem, loop, page, cur, hist>>

(***************************************************************************)
(* The process ends before its final write: what it held in memory is      *)
(* gone, the files stay as they are.                                       *)
(***************************************************************************)
Abort(to) ==
    /\ pc' = to
    /\ collected' = <<>>
    /\ processedHandles' = {}
    /\ stagnantScrolls' = 0
    /\ cellCount' = 0
    /\ i' = 0
    /\ scrollPos' = 0
    /\ card' = NoCard
    /\ cur' = Blank
    /\ loaded' = {}
    /\ setCalls' = [h \in {} |-> 0]
    /\ hovers' = 0
    /\ scrolls' = 0
    /\ quiet' = 0
    /\ pending' = FALSE
    /\ downloads' = [h \in {} |-> ""]
    /\ UNCHANGED <<header, files, probe, env, disk, run, ckptDone, prevFinal, afterDone>>

(***************************************************************************)
(* Line 100: the row's element has left the document (the list is          *)
(* re-rendered while the pointer moves), avatarContainer.hover() throws,   *)
(* and nothing catches it: the async function ends there.                  *)
(***************************************************************************)
HoverDetached ==
    /\ pc = "hover"
    /\ Abort("rowError")

(***************************************************************************)
(* Lines 28 and 31: the file of the image cannot be opened or written      *)
(* (the directory public/pfp is missing, the disk is full).  The stream    *)
(* emits 'error', nothing listens, and the process ends on the uncaught    *)
(* exception.                                                              *)
(***************************************************************************)
DownloadThrows ==
    /\ pc = "download"
    /\ cur.pfp # 0
    /\ DownloadImage(fx, cur.handle) = "thrown"
    /\ Abort("streamError")

(***************************************************************************)
(* Lines 209 and 238: fs.writeJSON fails after it has opened the file      *)
(* (disk full, I/O error), and nothing catches it.                         *)
(***************************************************************************)
WriteFails ==
    /\ pc \in {"ckpt", "finalwrite"}
    /\ Abort("writeError")

(***************************************************************************)
(* The environment: the process is killed; the operator logs in            *)
(* (src/scripts/login.ts writes the cookie file); a new process is started *)
(* on the same files and a freshly loaded page; the accounts' data         *)
(* changes, before a run loads or between two passes over the rows.        *)
(***************************************************************************)
Kill ==
    /\ pc \in Running \cup {"blocked"}
    /\ Abort("killed")

Login ==
    /\ pc = "noSession"
    /\ ~cookies
    /\ cookies' = TRUE
    /\ UNCHANGED <<header, aux, emptyPfp, lastGood, probe, env, disk, run, pc, mem, loop, page,
                   cur, hist>>

\* the ways a process ends on an exception
Aborted == {"crashed", "noSession", "rowError", "writeError", "streamError"}

Restart ==
    /\ pc \in {"done", "killed"} \cup Aborted
    /\ run < MaxRuns
    /\ run' = run + 1
    /\ pc' = "start"
    /\ collected' = <<>>
    /\ processedHandles' = {}
    /\ stagnantScrolls' = 0
    /\ cellCount' = 0
    /\ i' = 0
    /\ scrollPos' = 0
    /\ card' = NoCard
    /\ cur' = Blank
    /\ loaded' = {}
    /\ setCalls' = [h \in {} |-> 0]
    /\ hovers' = 0
    /\ scrolls' = 0
    /\ quiet' = 0
    /\ afterDone' = (pc = "done")
    /\ prevFinal' = IF pc = "done" THEN disk.data ELSE <<>>
    /\ pending' = FALSE
    /\ downloads' = [h \in {} |-> ""]
    /\ UNCHANGED <<header, files, probe, env, disk, ckptDone>>

Drift ==
    /\ gen < MaxGen
    /\ pc \in {"start", "loop"}
    /\ gen' = gen + 1
    /\ UNCHANGED <<header, aux, files, probe, fx, disk, run, pc, mem, loop, page, cur, hist>>

Next ==
    \/ Startup
    \/ LoopHead
    \/ Render
    \/ RowHead
    \/ DeHover
    \/ Hover
    \/ Extract
    \/ Leave
    \/ Download
    \/ DownloadHangs
    \/ Record
    \/ CheckpointDone
    \/ Check
    \/ Scroll
    \/ FinalSave
    \/ FinalDone
    \/ HoverDetached
    \/ DownloadThrows
    \/ WriteFails
    \/ Kill
    \/ Login
    \/ Restart
    \/ Drift

Spec == Init /\ [][Next]_vars

(***************************************************************************)
(* LoopSpec: one process from the end of its load (line 70) on, on a feed  *)
(* of at most two members; it is neither killed nor restarted, and every   *)
(* await returns in the end, but for a download that never settles.        *)
(***************************************************************************)
LoopFeeds == CardFeeds \cup ExtraFeeds \cup FlawedFeeds \cup LateFeeds
\* the datasets of no profile and of one profile short of a checkpoint
LoopFiles ==
    {NoFile,
     File([k \in 1..(CheckpointEvery - 1) |->
             Profile(Departed + k - 1, CardOf(Departed, 0))])}

LoopInit ==
    /\ fx \in LoopFeeds
    /\ gen = 0
    /\ disk \in LoopFiles
    /\ run = 1
    /\ pc = "loop"
    /\ collected = LoadAll(<<>>, disk.data)
    /\ processedHandles = LoadedHandles(disk.data)
    /\ stagnantScrolls = 0
    /\ cellCount = 0
    /\ i = 0
    /\ scrollPos = 0
    /\ card = NoCard
    /\ cur = Blank
    /\ loaded = Handles(disk.data)
    /\ setCalls = [h \in {} |-> 0]
    /\ hovers = 0
    /\ scrolls = 0
    /\ quiet = 0
    /\ ckptDone = {}
    /\ prevFinal = <<>>
    /\ afterDone = FALSE
    /\ cookies = TRUE
    /\ emptyPfp = {}
    /\ lastGood = disk
    /\ text = <<>>
    /\ parsed = Null
    /\ pending = FALSE
    /\ downloads = [h \in {} |-> ""]
    /\ isMobile = FALSE
    /\ HeaderStart

LoopNext ==
    \/ LoopHead
    \/ Render
    \/ RowHead
    \/ DeHover
    \/ Hover
    \/ Extract
    \/ Leave
    \/ Download
    \/ DownloadHangs
    \/ DownloadThrows
    \/ Record
    \/ CheckpointDone
    \/ Check
    \/ Scroll
    \/ FinalSave
    \/ FinalDone

LoopSpec == LoopInit /\ [][LoopNext]_vars /\ WF_vars(LoopNext)


(***************************************************************************)
(* ParseSpec: one member row whose hover card shows a followers label of   *)
(* any text; the label is parsed, the user record is built and stored,     *)
(* and the collection is written.                                          *)
(***************************************************************************)
\* characters of a label: digits, separators, suffixes of either case, a space
Alphabet == {"1", "4", ".", ",", "K", "m", " "}
\* span.textContent: every text of up to MaxLen characters, and the labels
\* of the hover cards
Texts ==
    UNION {[1..n -> Alphabet] : n \in 0..MaxLen} \cup {Labels[k] : k \in 1..Len(Labels)}

ParseInit ==
    /\ text \in Texts
    /\ parsed = Null
    /\ pc = "label"
    /\ fx = Fixture(1, 1, 1, TRUE, "none")
    /\ gen = 0
    /\ disk = NoFile
    /\ run = 1
    /\ collected = <<>>
    /\ processedHandles = {}
    /\ stagnantScrolls = 0
    /\ cellCount = 1
    /\ i = 0
    /\ scrollPos = 0
    /\ card = CardOf(1, gen)
    /\ cur = [Blank EXCEPT !.handle = 1]
    /\ loaded = {}
    /\ setCalls = [h \in {} |-> 0]
    /\ hovers = 1
    /\ scrolls = 0
    /\ quiet = 0
    /\ ckptDone = {}
    /\ prevFinal = <<>>
    /\ afterDone = FALSE
    /\ cookies = TRUE
    /\ emptyPfp = {}
    /\ lastGood = disk
    /\ pending = FALSE
    /\ downloads = [h \in {} |-> ""]
    /\ isMobile = FALSE
    /\ HeaderStart

(***************************************************************************)
(* Lines 148-156: the followers value of the label text.                   *)
(***************************************************************************)
ParseLabel ==
    /\ pc = "label"
    /\ parsed' = ParseFollowers(text)
    /\ cur' = [cur EXCEPT !.bio = card, !.pfp = RowImage(fx, cur.handle)]
    /\ pc' = "parsed"
    /\ UNCHANGED <<header, aux, files, text, env, disk, run, mem, loop, page, hist>>

(***************************************************************************)
(* Lines 194-203: the user record and its entry in the collection.         *)
(***************************************************************************)
BuildUser ==
    /\ pc = "parsed"
    /\ collected' =
         MapSet(collected,
                User(cur.handle, RowName(fx, cur.handle), cur.bio, parsed, cur.pfp))
    /\ processedHandles' = processedHandles \cup {cur.handle}
    /\ pc' = "stored"
    /\ UNCHANGED <<header, aux, files, probe, env, disk, run, loop, page, cur, hist>>

(***************************************************************************)
(* Lines 237-238: the collection is written.                               *)
(***************************************************************************)
WriteUsers ==
    /\ pc = "stored"
    /\ disk' = File(Values(collected))
    /\ lastGood' = disk'
    /\ pc' = "written"
    /\ UNCHANGED <<header, aux, cookies, emptyPfp, probe, env, run, mem, loop, page, cur, hist>>

ParseNext ==
    \/ ParseLabel
    \/ BuildUser
    \/ WriteUsers

ParseSpec == ParseInit /\ [][ParseNext]_vars

(***************************************************************************)
(* The search header, src/public/universe/header.js.  Texts are sequences  *)
(* of characters.  The page's events and its two kinds of timer are the    *)
(* actions: a timer that has been set fires at any later step unless it    *)
(* has been cleared.                                                       *)
(***************************************************************************)
MaxBlurTimers == 1

HeaderUser(h, n) == [handle |-> h, name |-> n]

HeaderUsers ==
    << HeaderUser(<<"a">>, <<"A", "b">>),
       HeaderUser(<<"a", "b">>, <<>>),
       HeaderUser(<<"B">>, <<"a">>),
       HeaderUser(<<"b", "a">>, <<>>),
       HeaderUser(<<>>, <<"a">>) >>

Typed ==
    { <<>>, <<" ">>, <<"a">>, <<"A", " ">>, <<"b">>, <<"a", "b">>, <<"z">> }

RECURSIVE TrimStart(_)
TrimStart(s) ==
    IF s # <<>> /\ Head(s) = " " THEN TrimStart(Tail(s)) ELSE s

RECURSIVE TrimEnd(_)
TrimEnd(s) ==
    IF s # <<>> /\ s[Len(s)] = " "
    THEN TrimEnd(SubSeq(s, 1, Len(s) - 1))
    ELSE s

Trim(s) == TrimEnd(TrimStart(s))

LowerChar(c) ==
    CASE c = "A" -> "a"
      [] c = "B" -> "b"
      [] OTHER -> c

ToLowerCase(s) == [k \in 1..Len(s) |-> LowerChar(s[k])]

Includes(s, sub) ==
    \E k \in 0..(Len(s) - Len(sub)) : SubSeq(s, k + 1, k + Len(sub)) = sub

Matches(u, val) ==
    \/ u.handle # <<>> /\ Includes(ToLowerCase(u.handle), val)
    \/ u.name # <<>> /\ Includes(ToLowerCase(u.name), val)

ResultLimit(mobile) == IF mobile THEN 3 ELSE 4

Slice(s, n) == SubSeq(s, 1, Min(n, Len(s)))

Search(val, mobile) ==
    Slice(SelectSeq(HeaderUsers, LAMBDA u : Matches(u, val)), ResultLimit(mobile))

\* debouncedSearch: the earlier timer is cleared, a new one holds val
DebouncedSearch(val) == [armed |-> TRUE, val |-> val]

InputEvent(v) ==
    LET val == ToLowerCase(Trim(v)) IN
    /\ inputValue' = v
    /\ IF val = <<>>
       THEN /\ dropdown' = EmptyDropdown
            /\ findMeResults' = <<>>
            /\ findMeSelected' = -1
            /\ cleared' = TRUE
            /\ UNCHANGED searchTimeout
       ELSE /\ searchTimeout' = DebouncedSearch(val)
            /\ cleared' = FALSE
            /\ UNCHANGED <<dropdown, findMeResults, findMeSelected>>
    /\ UNCHANGED <<scraper, isMobile, blurTimers, picked>>

\* the debounce timer fires: performSearch(val)
PerformSearch ==
    /\ searchTimeout.armed
    /\ searchTimeout' = NoTimer
    /\ findMeResults' = Search(searchTimeout.val, isMobile)
    /\ dropdown' = [display |-> TRUE, for |-> searchTimeout.val,
                    rows |-> Search(searchTimeout.val, isMobile)]
    /\ findMeSelected' = -1
    /\ UNCHANGED <<scraper, isMobile, inputValue, blurTimers, picked, cleared>>

Blur ==
    /\ blurTimers < MaxBlurTimers
    /\ blurTimers' = blurTimers + 1
    /\ UNCHANGED <<scraper, isMobile, inputValue, searchTimeout, dropdown,
                   findMeResults, findMeSelected, picked, cleared>>

BlurTimerFires ==
    /\ blurTimers > 0
    /\ blurTimers' = blurTimers - 1
    /\ dropdown' = [dropdown EXCEPT !.display = FALSE]
    /\ UNCHANGED <<scraper, isMobile, inputValue, searchTimeout,
                   findMeResults, findMeSelected, picked, cleared>>

ArrowDown ==
    /\ findMeResults # <<>>
    /\ findMeSelected' = (findMeSelected + 1) % Len(findMeResults)
    /\ UNCHANGED <<scraper, isMobile, inputValue, searchTimeout, dropdown,
                   findMeResults, blurTimers, picked, cleared>>

ArrowUp ==
    /\ findMeResults # <<>>
    /\ findMeSelected' =
           (findMeSelected - 1 + Len(findMeResults)) % Len(findMeResults)
    /\ UNCHANGED <<scraper, isMobile, inputValue, searchTimeout, dropdown,
                   findMeResults, blurTimers, picked, cleared>>

Enter ==
    /\ findMeResults # <<>>
    /\ picked' = IF findMeSelected >= 0 /\ findMeSelected < Len(findMeResults)
                 THEN findMeResults[findMeSelected + 1]
                 ELSE findMeResults[1]
    /\ inputValue' = <<>>
    /\ dropdown' = [dropdown EXCEPT !.display = FALSE]
    /\ cleared' = TRUE
    /\ UNCHANGED <<scraper, isMobile, searchTimeout, findMeResults,
                   findMeSelected, blurTimers>>

Escape ==
    /\ findMeResults # <<>>
    /\ dropdown' = [dropdown EXCEPT !.display = FALSE]
    /\ inputValue' = <<>>
    /\ findMeResults' = <<>>
    /\ findMeSelected' = -1
    /\ cleared' = TRUE
    /\ UNCHANGED <<scraper, isMobile, searchTimeout, blurTimers, picked>>

\* a row's own handler took the user; both kinds of row end the same way
SelectRow(idx) ==
    /\ dropdown.display
    /\ idx \in 1..Len(dropdown.rows)
    /\ picked' = dropdown.rows[idx]
    /\ inputValue' = <<>>
    /\ dropdown' = [dropdown EXCEPT !.display = FALSE]
    /\ cleared' = TRUE
    /\ UNCHANGED <<scraper, isMobile, searchTimeout, findMeResults,
                   findMeSelected, blurTimers>>

RowTouchStart == isMobile /\ \E idx \in 1..ResultLimit(TRUE) : SelectRow(idx)

RowMouseDown == ~isMobile /\ \E idx \in 1..ResultLimit(FALSE) : SelectRow(idx)

RowMouseEnter ==
    /\ ~isMobile
    /\ dropdown.display
    /\ \E idx \in 1..Len(dropdown.rows) : findMeSelected' = idx - 1
    /\ UNCHANGED <<scraper, isMobile, inputValue, searchTimeout, dropdown,
                   findMeResults, blurTimers, picked, cleared>>

RowMouseLeave ==
    /\ ~isMobile
    /\ dropdown.display
    /\ dropdown.rows # <<>>
    /\ findMeSelected' = -1
    /\ UNCHANGED <<scraper, isMobile, inputValue, searchTimeout, dropdown,
                   findMeResults, blurTimers, picked, cleared>>

HeaderInit ==
    /\ fx = Fixture(1, 1, 1, TRUE, "none")
    /\ gen = 0
    /\ disk = NoFile
    /\ run = 1
    /\ pc = "start"
    /\ collected = <<>>
    /\ processedHandles = {}
    /\ stagnantScrolls = 0
    /\ cellCount = 0
    /\ i = 0
    /\ scrollPos = 0
    /\ card = NoCard
    /\ cur = Blank
    /\ loaded = {}
    /\ setCalls = [h \in {} |-> 0]
    /\ hovers = 0
    /\ scrolls = 0
    /\ quiet = 0
    /\ ckptDone = {}
    /\ prevFinal = <<>>
    /\ afterDone = FALSE
    /\ cookies = FALSE
    /\ emptyPfp = {}
    /\ lastGood = disk
    /\ text = <<>>
    /\ parsed = Null
    /\ pending = FALSE
    /\ downloads = [h \in {} |-> ""]
    /\ isMobile \in BOOLEAN
    /\ HeaderStart

HeaderNext ==
    \/ \E v \in Typed : InputEvent(v)
    \/ PerformSearch
    \/ Blur
    \/ BlurTimerFires
    \/ ArrowDown
    \/ ArrowUp
    \/ Enter
    \/ Escape
    \/ RowTouchStart
    \/ RowMouseDown
    \/ RowMouseEnter
    \/ RowMouseLeave

HeaderSpec == HeaderInit /\ [][HeaderNext]_vars

(***************************************************************************)
(* Properties.                                                             *)
(***************************************************************************)
NoDuplicates(m) == \A j, k \in 1..Len(m) : m[j].handle = m[k].handle => j = k

\* the ways a process ends before its final write
Died == Aborted \cup {"killed"}

\* the loop has stopped
Settled == {"final", "finalwrite", "done"}

\* the row the for loop has just left behind
JustPassed == Rows(fx, scrollPos)[i]
PassedARow == pc = "row" /\ i >= 1 /\ i <= Len(Rows(fx, scrollPos))

\* member handles rendered in a row at some time of this run
Revealed == 1..LastRendered(fx, scrollPos)

(***************************************************************************)
(* C1: neither the collection nor the dataset file ever holds two entries  *)
(* for one handle, and the rows of a run call collected.set at most once   *)
(* per handle and never for a handle loaded from the prior dataset.        *)
(***************************************************************************)
C1_Dedup ==
    /\ NoDuplicates(collected)
    /\ NoDuplicates(disk.data)
    /\ \A h \in DOMAIN setCalls : setCalls[h] = 1 /\ h \notin loaded

\* a handle collected in an earlier pass is rendered again and has been passed by
C1_Witness ==
    /\ PassedARow
    /\ fx.accum /\ scrollPos >= 1
    /\ JustPassed.handle \in 1..LastRendered(fx, scrollPos - 1)
    /\ JustPassed.handle \in DOMAIN setCalls
    /\ Len(collected) > LastRendered(fx, scrollPos - 1)

(***************************************************************************)
(* C2: within a process, no step changes or removes the profile stored     *)
(* for a handle, whether it was collected by this process or loaded from   *)
(* the dataset of an earlier one.                                          *)
(***************************************************************************)
C2_NoOverwrite ==
    [][(run' = run /\ pc' \notin Died) =>
          \A h \in Handles(collected) :
              HasKey(collected', h) /\ Lookup(collected', h) = Lookup(collected, h)]_vars

\* a handle loaded from the prior dataset is met again after its data changed
C2_Witness ==
    /\ PassedARow
    /\ run = 2
    /\ JustPassed.handle \in loaded
    /\ SpawnsCard(fx, JustPassed.handle)
    /\ Lookup(collected, JustPassed.handle).bio # CardOf(JustPassed.handle, gen)

C4_Original ==
    /\ pc = "loop" => stagnantScrolls = quiet
    /\ pc \in Settled => quiet >= StagnationThreshold

(***************************************************************************)
(* C5 as claimed: when the run has ended, the dataset holds exactly one    *)
(* profile for every member handle that was rendered, with followers and   *)
(* bio for the handles whose hover card appears, null followers and an     *)
(* empty bio for the others, and no duplicate.                             *)
(***************************************************************************)
C5_Original ==
    pc = "done" =>
        /\ NoDuplicates(disk.data)
        /\ \A h \in Revealed :
              /\ HasKey(disk.data, h)
              /\ SpawnsCard(fx, h) =>
                    /\ Lookup(disk.data, h).followers.kind = "num"
                    /\ Lookup(disk.data, h).bio # EmptyBio
              /\ ~SpawnsCard(fx, h) =>
                    /\ Lookup(disk.data, h).followers = Null
                    /\ Lookup(disk.data, h).bio = EmptyBio

(***************************************************************************)
(* C6: a process started on the dataset that the previous process wrote    *)
(* when it ran to its end, on the same feed, ends with the collection and  *)
(* the dataset equal to that dataset: same size, order and contents (this  *)
(* holds even when the accounts' data has changed in between).             *)
(***************************************************************************)
C6_IdempotentResume ==
    (pc = "done" /\ afterDone) =>
        /\ collected = prevFinal
        /\ disk = File(prevFinal)

\* the second run over the large feed has ended
C6_Witness ==
    /\ pc = "done" /\ afterDone
    /\ fx \in LargeFeeds
    /\ Len(prevFinal) >= NPasses * PageSize
    /\ gen > 0

(***************************************************************************)
(* C7 as claimed: once a periodic checkpoint has completed, every later    *)
(* process has, after its startup, all the handles of that checkpoint in   *)
(* its processed set.                                                      *)
(***************************************************************************)
C7_Original ==
    (run >= 2 /\ pc \in (Running \cup {"done", "crashed"}) \ {"start"}) =>
        ckptDone \subseteq processedHandles

(***************************************************************************)
(* C8 as claimed: the dataset file is never in a partially written state.  *)
(***************************************************************************)
C8_Original == disk.state # "torn"

(***************************************************************************)
(* C9 as claimed: recording a profile starts a checkpoint exactly when     *)
(* the number of profiles newly collected by this process is a multiple    *)
(* of 25.                                                                  *)
(***************************************************************************)
C9_Original ==
    [][(pc = "record" /\ pc' \in {"ckpt", "row"}) =>
          (pc' = "ckpt" <=>
              (Len(collected') - Cardinality(loaded)) % CheckpointEvery = 0)]_vars

(***************************************************************************)
(* C9 as amended: recording a profile starts a checkpoint exactly when     *)
(* the size of the whole collection, loaded profiles included, is a        *)
(* multiple of 25.                                                         *)
(***************************************************************************)
C9_Cadence ==
    [][(pc = "record" /\ pc' \in {"ckpt", "row"}) =>
          (pc' = "ckpt" <=> Len(collected') % CheckpointEvery = 0)]_vars

\* a checkpoint under way after the 24th new profile of a run that loaded one
C9_Witness ==
    /\ pc = "ckpt"
    /\ Cardinality(loaded) = 1
    /\ Len(collected) - Cardinality(loaded) = CheckpointEvery - 1

(***************************************************************************)
(* C10: a process that has ended has written the whole collection to the   *)
(* dataset file; once the loop has stopped the process only goes on to the *)
(* final write, and hovers, records and scrolls nothing more.              *)
(***************************************************************************)
C10_FinalSave ==
    /\ [](pc = "done" => disk = File(collected))
    /\ [][(pc \in Settled /\ run' = run /\ pc' \notin Died) =>
            /\ pc' \in Settled
            /\ pc = "final" => pc' \in {"final", "finalwrite"}
            /\ hovers' = hovers /\ scrolls' = scrolls /\ setCalls' = setCalls
            /\ collected' = collected]_vars

\* a resumed run that collected nothing new has ended, its size no multiple of 25
C10_Witness ==
    /\ pc = "done"
    /\ run = 2
    /\ DOMAIN setCalls = {}
    /\ Len(collected) % CheckpointEvery # 0
    /\ disk = File(collected)

(***************************************************************************)
(* C11 as claimed: no process ends on the error of a DOM operation on a    *)
(* row; the row is skipped or degraded and the loop goes on.               *)
(***************************************************************************)
C11_Original == pc # "rowError"

C14_Original == (pc = "writeError" /\ lastGood.state = "ok") => disk = lastGood

(***************************************************************************)
(* C15: a process started without the cookie file ends at once: it         *)
(* has hovered, recorded and scrolled nothing, holds nothing, and the      *)
(* dataset file is as it was, absent or with its contents.                 *)
(***************************************************************************)
C15_MissingSession ==
    /\ [][(pc = "start" /\ ~cookies /\ pc' \notin {"start", "killed"}) =>
            /\ pc' = "noSession"
            /\ disk' = disk]_vars
    /\ [](pc = "noSession" =>
            /\ hovers = 0 /\ scrolls = 0
            /\ DOMAIN setCalls = {}
            /\ collected = <<>> /\ processedHandles = {})
    /\ [][(pc = "noSession" /\ run' = run) => (pc' = "noSession" /\ disk' = disk)]_vars

\* a process has ended on the missing cookie file, beside an earlier dataset
C15_Witness ==
    /\ pc = "noSession"
    /\ ~cookies
    /\ disk \in PriorFiles
    /\ disk.state = "ok"

(***************************************************************************)
(* C16: the followers of every profile in the collection and in the        *)
(* dataset file is a non-negative integer or null, whatever the text of    *)
(* the label; a text without any digit gives null.                         *)
(***************************************************************************)
FollowersOk(v) == v = Null \/ (v.kind = "num" /\ v.val \in Nat)

IsNumeral(t) ==
    /\ \A k \in 1..Len(t) : IsDigit(t[k]) \/ t[k] = "."
    /\ Cardinality({k \in 1..Len(t) : t[k] = "."}) <= 1
    /\ DigitsOnly(t) # <<>>
Suffixed(t, cs) == Len(t) >= 2 /\ Last(t) \in cs /\ IsNumeral(Front(t))
PlainNumber(t) ==
    /\ \A k \in 1..Len(t) : IsDigit(t[k]) \/ t[k] = ","
    /\ DigitsOnly(t) # <<>>

\* the floor of mant / 10^scale * factor, in exact arithmetic
ExactFloorTimes(f, factor) ==
    Num(IntValue(Strip(DivRem(MulAcc(Limbs(f.mant), factor, 0), Pow10(f.scale)).q)))

C17_Original ==
    pc = "stored" =>
        /\ Suffixed(text, {"k", "K"}) =>
              collected[1].followers = ExactFloorTimes(ParseFloat(Front(text)), 1000)
        /\ Suffixed(text, {"m", "M"}) =>
              collected[1].followers = ExactFloorTimes(ParseFloat(Front(text)), 1000000)
        /\ PlainNumber(text) =>
              collected[1].followers = Num(DigitsValue(DigitsOnly(text)))
        /\ text = <<>> => collected[1].followers = Null

(***************************************************************************)
(* C18: the collection is the loaded dataset in its file order followed by *)
(* the profiles of this process in the order their rows were recorded, and *)
(* every completed write puts the collection in that order into the file.  *)
(***************************************************************************)
C18_InsertionOrder ==
    [][/\ (pc = "start" /\ pc' = "loop") => collected' = disk.data
       /\ (pc = "record" /\ pc' \in {"row", "ckpt"}) =>
              /\ Front(collected') = collected
              /\ Last(collected').handle = cur.handle
       /\ (pc \notin {"start", "record"} /\ run' = run /\ pc' \notin Died) =>
              collected' = collected
       /\ (disk' # disk /\ disk'.state = "ok") => disk'.data = collected]_vars

\* the written dataset starts with the loaded profile, whose handle is the largest
C18_Witness ==
    /\ pc = "done"
    /\ loaded = {Departed}
    /\ Len(disk.data) >= 3
    /\ disk.data[1].handle = Departed
    /\ disk.data[2].handle < disk.data[3].handle
    /\ disk.data[3].handle < disk.data[1].handle

(***************************************************************************)
(* C19: every completed write holds every handle loaded at startup and     *)
(* every handle collected since, and starts with the whole dataset that    *)
(* was written before it.                                                  *)
(***************************************************************************)
IsPrefix(a, b) == Len(a) <= Len(b) /\ SubSeq(b, 1, Len(a)) = a

C19_NoPruning ==
    [][(disk' # disk /\ disk'.state = "ok") =>
          /\ loaded \subseteq Handles(disk'.data)
          /\ DOMAIN setCalls \subseteq Handles(disk'.data)
          /\ Handles(collected) \subseteq Handles(disk'.data)
          /\ IsPrefix(lastGood.data, disk'.data)]_vars

\* the final output, after a periodic checkpoint, holds a member that has left the feed
C19_Witness ==
    /\ pc = "done"
    /\ Departed \in loaded
    /\ Departed \in ckptDone
    /\ Departed \in Handles(disk.data)
    /\ Len(disk.data) > Cardinality(ckptDone)

(***************************************************************************)
(* C20 as claimed: a process that comes to the row of a handle it loaded   *)
(* from the dataset and whose image file was left empty by a failed        *)
(* download processes that row, and so attempts the download again.        *)
(***************************************************************************)
C20_Original ==
    [][(/\ pc = "row"
        /\ i < cellCount
        /\ i + 1 <= Len(Rows(fx, scrollPos))
        /\ RowHandle(Rows(fx, scrollPos)[i + 1]) \in loaded \cap emptyPfp
        /\ run' = run /\ pc' # "killed") => pc' = "dehover"]_vars

\* the handles of the member rows rendered now that are not in the processed set
Unprocessed ==
    {RowHandle(Rows(fx, scrollPos)[k]) : k \in 1..Len(Rows(fx, scrollPos))}
        \ ({0} \cup processedHandles)

(***************************************************************************)
(* C21 as claimed: when a scroll is issued no rendered row has a handle    *)
(* outside the processed set; a pass that leaves one goes back to the      *)
(* rows instead of scrolling.                                              *)
(***************************************************************************)
C21_Original == pc = "scroll" => Unprocessed = {}

\* a step of a process that goes on: it is neither killed nor ended by an
\* exception, and no new process is started
GoesOn == run' = run /\ pc' \notin Died

\* the steps of a row other than the download, each in its place
RowSteps ==
    /\ (pc = "row" /\ pc' \notin {"row", "check"}) =>
          /\ pc' = "dehover"
          /\ cur'.handle \notin processedHandles \cup {0}
    /\ pc = "dehover" =>
          /\ pc' = "hover"
          /\ card' = AfterLeave(fx, card)
          /\ hovers' = hovers
    /\ pc = "hover" =>
          /\ pc' = "extract"
          /\ hovers' = Bump(hovers)
          /\ cur'.timedOut = (card' = NoCard)
    /\ pc = "extract" =>
          /\ pc' = "leave"
          /\ cur'.bio = HoverCardData(card).bio
          /\ cur'.followers = HoverCardData(card).followers
    /\ pc = "leave" =>
          /\ pc' = "download"
          /\ HasBox(fx, cur.handle) => card' = AfterLeave(fx, card)
          /\ downloads' = downloads
    /\ pc = "download" =>
          /\ pc' \in {"record", "blocked"}
          /\ collected' = collected
    /\ pc = "record" =>
          /\ ~HasKey(collected, cur.handle)
          /\ HasKey(collected', cur.handle)
          /\ cur.handle \in processedHandles'
          /\ pc' \in {"row", "ckpt"}
          /\ pc' = "ckpt" <=> Len(collected') % CheckpointEvery = 0
    /\ pc = "ckpt" =>
          /\ pc' = "row"
          /\ HasKey(disk'.data, cur.handle)
    /\ pc \in {"record", "ckpt"} /\ pc' = "row" => i' = i + 1
    /\ \A h \in processedHandles' \ processedHandles :
          pc \in {"start", "record"} /\ HasKey(collected', h)

\* this step calls downloadImage for the row in progress
Attempts == cur.handle \in DOMAIN downloads' \ DOMAIN downloads

(***************************************************************************)
(* C22 as claimed: every row with an unprocessed handle goes through       *)
(* de-hover, hover, wait, extraction, de-hover, a download attempt, the    *)
(* upsert, the processed mark and the checkpoint check, in this order and  *)
(* none left out.                                                          *)
(***************************************************************************)
C22_Original ==
    [][GoesOn =>
          /\ RowSteps
          /\ (pc = "download" /\ pc' = "record") => Attempts]_vars

(***************************************************************************)
(* C22 as amended: the steps of a row come in the order de-hover, hover,   *)
(* wait, extraction, de-hover (when the row has a bounding box), download  *)
(* attempt (exactly when the row has an image URL), upsert and processed   *)
(* mark, checkpoint check; a handle is marked processed only in the step   *)
(* that puts its profile into the collection, and a checkpoint started by  *)
(* that step writes that profile.                                          *)
(***************************************************************************)
C22_StepOrder ==
    [][GoesOn =>
          /\ RowSteps
          /\ (pc = "download" /\ pc' = "record") => (Attempts <=> cur.pfp # 0)]_vars

\* the 25th profile has gone through hover, download, record and checkpoint
C22_Witness ==
    /\ PassedARow
    /\ JustPassed.handle \in DOMAIN setCalls
    /\ JustPassed.handle \in DOMAIN downloads
    /\ hovers >= 1
    /\ Len(collected) = CheckpointEvery
    /\ Last(collected).handle = JustPassed.handle
    /\ disk = File(collected)

(***************************************************************************)
(* C23 as claimed: a rendered row without a handle (no avatar container,   *)
(* or an empty identifier) is never hovered, downloaded, recorded or       *)
(* marked processed, and the test for newly visible handles does not       *)
(* count it: the stagnation counter is reset only when a non-empty handle  *)
(* outside the processed set is rendered.                                  *)
(***************************************************************************)
C23_Original ==
    /\ [](/\ 0 \notin processedHandles
          /\ ~HasKey(collected, 0)
          /\ 0 \notin DOMAIN downloads
          /\ pc \in {"dehover", "hover", "extract", "leave", "download", "record"}
                => cur.handle # 0)
    /\ [][(pc = "check" /\ GoesOn) =>
            (stagnantScrolls' = 0 <=>
                NewHandles(Containers(fx, scrollPos) \ {0}, processedHandles) # {})]_vars

\* how the downloadImage call of this step ended, "" when it did not end
Reported ==
    IF cur.handle \in DOMAIN downloads' THEN downloads'[cur.handle] ELSE ""

(***************************************************************************)
(* C24 as claimed: the image fetch ends in a reported failure on a network *)
(* failure, on a non-2xx status and on an error of the file stream, and    *)
(* reports success only when the response was a success and the image was  *)
(* written completely.                                                     *)
(***************************************************************************)
C24_Original ==
    [][(pc = "download" /\ cur.pfp # 0 /\ run' = run /\ pc' # "killed") =>
          /\ Fault(fx) \in {"network", "status", "stream"} => Reported = "rejected"
          /\ Reported = "resolved" => Fault(fx) = "none"]_vars

(***************************************************************************)
(* C25: the processed set is the key set of the collection, right after    *)
(* the load (both empty when there is no dataset file) and after every     *)
(* row; a row with a handle passes the gate exactly when the collection    *)
(* holds no profile for its handle.                                        *)
(***************************************************************************)
C25_ProcessedIsKeys ==
    /\ [](processedHandles = Handles(collected))
    /\ [][(pc = "start" /\ pc' = "loop") =>
            /\ processedHandles' = Handles(disk.data)
            /\ disk.state = "absent" => (collected' = <<>> /\ processedHandles' = {})]_vars
    /\ [][(/\ pc = "row" /\ i < cellCount /\ i + 1 <= Len(Rows(fx, scrollPos))
           /\ RowHandle(Rows(fx, scrollPos)[i + 1]) # 0
           /\ GoesOn) =>
            (pc' = "dehover" <=>
                ~HasKey(collected, RowHandle(Rows(fx, scrollPos)[i + 1])))]_vars

\* a resumed run has recorded a new row beside the profile it loaded
C25_Witness ==
    /\ PassedARow
    /\ run = 2
    /\ loaded # {}
    /\ JustPassed.handle \in DOMAIN setCalls
    /\ processedHandles = loaded \cup DOMAIN setCalls
    /\ Len(collected) = Cardinality(processedHandles)

(***************************************************************************)
(* C26 as claimed: the bio and the followers stored for a handle are read  *)
(* from a hover card spawned by hovering that handle's avatar, or are the  *)
(* defaults when no card appears; the card of an earlier row is never      *)
(* read for a later one.                                                   *)
(***************************************************************************)
C26_Original ==
    \A k \in 1..Len(collected) :
        collected[k].bio = EmptyBio \/ collected[k].bio.of = collected[k].handle

(***************************************************************************)
(* C27 as claimed: a process that is not killed completes the final save   *)
(* in the end, unless it ends on an exception or hangs in a download: the  *)
(* loop does not scroll forever, whatever elements without a usable        *)
(* handle stay rendered.                                                   *)
(***************************************************************************)
C27_Original == <>(pc \in {"done", "blocked"} \cup Died)

(***************************************************************************)
(* C28 as claimed: an avatar download that was started settles, resolved   *)
(* or rejected and caught, whatever the response and the file stream do,   *)
(* and the row goes on to its record.                                      *)
(***************************************************************************)
C28_Original ==
    [][(pc = "download" /\ run' = run /\ pc' # "killed") =>
          /\ pc' = "record"
          /\ cur.pfp # 0 => Settles(Reported)]_vars

\* the profiles of the collection that the dataset file does not hold
Unsaved ==
    {k \in 1..Len(collected) :
        ~(HasKey(disk.data, collected[k].handle)
          /\ Lookup(disk.data, collected[k].handle) = collected[k])}

\* the process is between two steps of its rows, no write under way
BetweenSteps == pc \in (Running \cup {"blocked"}) \ {"start", "ckpt", "finalwrite"}

(***************************************************************************)
(* C29: whenever a process is not in the middle of a write, the dataset    *)
(* file is complete and at most 24 profiles of the collection are missing  *)
(* from it, in a first process and in one that resumed from the file.      *)
(***************************************************************************)
C29_BoundedLoss ==
    BetweenSteps =>
        /\ disk.state # "torn"
        /\ Cardinality(Unsaved) <= CheckpointEvery - 1

\* 24 rows have been recorded and none written; the next record is a checkpoint
C29_Witness ==
    /\ PassedARow
    /\ Cardinality(Unsaved) = CheckpointEvery - 1
    /\ Len(collected) = CheckpointEvery - 1
    /\ disk = NoFile

(***************************************************************************)
(* C30: once the input has been cleared (an input event with empty text,   *)
(* Escape, Enter or a selected row) and until the next input event with    *)
(* text, the dropdown is hidden: no search scheduled before the clear      *)
(* opens it again.                                                         *)
(***************************************************************************)
C30_Original == cleared => ~dropdown.display

=============================================================================
